---------------------------- MODULE Spec2Model ----------------------------
(***************************************************************************)
(* Model of cuda.py: the escape evaluators (mandelbrot, mandelbrot_cuda),  *)
(* the CPU path (compute_mandelbrot_region, ZoomableMandelbrot with its    *)
(* event handlers and plot_mandelbrot over a process pool) and the GPU     *)
(* path (mandelbrot_kernel, compute_mandelbrot_gpu).                       *)
(*                                                                         *)
(* Floating-point values are modelled as exact rationals <<num, den>> in   *)
(* lowest terms, den > 0.  The inputs drawn below are small integers and   *)
(* dyadic/short fractions, on which the source's arithmetic is exact as    *)
(* long as an orbit stays inside the escape radius.                        *)
(***************************************************************************)
EXTENDS Integers, Sequences, FiniteSets, TLC

VARIABLES
    \* escape evaluators
    c, max_iter, n_cpu, n_gpu,
    \* control position of the operation being run
    pc,
    \* ZoomableMandelbrot fields
    xmin, xmax, ymin, ymax, width, height, press, rect, dispatches,
    \* plot_mandelbrot locals and the process pool
    max_workers, regions, status, futures, completed, results,
    bottom_left, bottom_right, top_left, top_right, final_result,
    \* compute_mandelbrot_gpu parameters and device state
    min_x, max_x, min_y, max_y, image, ran, ran_out, writes

evalVars == <<c, n_cpu, n_gpu>>
viewVars == <<xmin, xmax, ymin, ymax, press, rect, dispatches>>
poolVars == <<max_workers, regions, status, futures, completed, results>>
plotVars == <<bottom_left, bottom_right, top_left, top_right, final_result>>
gpuVars  == <<min_x, max_x, min_y, max_y, image, ran, ran_out, writes>>
vars == <<c, max_iter, n_cpu, n_gpu, pc,
          xmin, xmax, ymin, ymax, width, height, press, rect, dispatches,
          max_workers, regions, status, futures, completed, results,
          bottom_left, bottom_right, top_left, top_right, final_result,
          min_x, max_x, min_y, max_y, image, ran, ran_out, writes>>

---------------------------------------------------------------------------
\* Bounds of the model.

\* sample coordinates of the evaluator runs lie in -MaxSample..MaxSample
MaxSample == 3
\* max_iter of the evaluator runs lies in 1..MaxEvalIter
MaxEvalIter == 4
\* mouse events inside the axes have coordinates in 0..MaxEvCoord
MaxEvCoord == 1
\* width and height of the CPU path lie in 1..MaxDim
MaxDim == 4
\* max_iter of the CPU path lies in 1..MaxIter
MaxIter == 3
\* pool sizes lie in 1..MaxWorkers
MaxWorkers == 2
\* plot_mandelbrot runs at most MaxDispatches times in a viewer session
MaxDispatches == 3
\* the viewer's pixel size (width = height = 800 by default in the source)
ViewDim == 2
\* edge of a thread block (16 in the source), scaled to keep the thread
\* schedules enumerable
BlockEdge == 2
\* width and height of the GPU path lie in 1..MaxGpuWidth, 1..MaxGpuHeight
MaxGpuWidth == 3
MaxGpuHeight == 2
\* max_iter of the GPU path (1000 in the source's call)
GpuIter == 2

\* Python's None: for a count, for self.press (a pair otherwise) and for a
\* grid that has not been computed
None == "None"
NoPress == <<>>
NoGrid == [rows |-> 0 - 1, cols |-> 0 - 1, cell |-> [p \in {} |-> 0]]

---------------------------------------------------------------------------
\* Real arithmetic: rationals <<num, den>>, den > 0, in lowest terms.

Abs(i) == IF i < 0 THEN -i ELSE i

RECURSIVE GCD(_, _)
GCD(a, b) == IF b = 0 THEN a ELSE GCD(b, a % b)

Reduce(num, den, g) == <<num \div g, den \div g>>
Norm(num, den) == Reduce(num, den, GCD(Abs(num), den))

Rat(i) == <<i, 1>>
AddOver(p, q, g) ==
    Norm(p[1] * (q[2] \div g) + q[1] * (p[2] \div g), (p[2] \div g) * q[2])
RAdd(p, q) == AddOver(p, q, GCD(p[2], q[2]))
RNeg(p) == <<-p[1], p[2]>>
RSub(p, q) == RAdd(p, RNeg(q))
RMul(p, q) == Norm(p[1] * q[1], p[2] * q[2])
\* p / k and p * k for an integer k (k > 0 for the division)
RDivInt(p, k) == Norm(p[1], p[2] * k)
RMulInt(p, k) == Norm(p[1] * k, p[2])
RLess(p, q) == p[1] * q[2] < q[1] * p[2]
RLeq(p, q)  == p[1] * q[2] <= q[1] * p[2]

\* Complex numbers <<re, im>> of rationals.
Cplx(re, im) == <<re, im>>
CZero == Cplx(Rat(0), Rat(0))
CAdd(u, v) == Cplx(RAdd(u[1], v[1]), RAdd(u[2], v[2]))
CMul(u, v) == Cplx(RSub(RMul(u[1], v[1]), RMul(u[2], v[2])),
                   RAdd(RMul(u[1], v[2]), RMul(u[2], v[1])))
\* abs(z) > 2 and abs(z) <= 2, decided on the squared modulus
AbsSq(z) == RAdd(RMul(z[1], z[1]), RMul(z[2], z[2]))
AbsGt2(z) == RLess(Rat(4), AbsSq(z))
AbsLe2(z) == RLeq(AbsSq(z), Rat(4))

---------------------------------------------------------------------------
\* The escape evaluators.

\* mutant: the loop tests abs(z) < 2
RECURSIVE mandelbrot_strict_loop(_, _, _, _)
mandelbrot_strict_loop(z, n, cc, mi) ==
    IF RLess(AbsSq(z), Rat(4)) /\ n < mi
    THEN mandelbrot_strict_loop(CAdd(CMul(z, z), cc), n + 1, cc, mi)
    ELSE n

mandelbrot_strict(cc, mi) == mandelbrot_strict_loop(CZero, 0, cc, mi)

\* mutant: the loop tests n <= max_iter
RECURSIVE mandelbrot_over_loop(_, _, _, _)
mandelbrot_over_loop(z, n, cc, mi) ==
    IF AbsLe2(z) /\ n <= mi
    THEN mandelbrot_over_loop(CAdd(CMul(z, z), cc), n + 1, cc, mi)
    ELSE n

mandelbrot_over(cc, mi) == mandelbrot_over_loop(CZero, 0, cc, mi)

\* while abs(z) <= 2 and n < max_iter: z = z * z + c; n += 1
RECURSIVE mandelbrot_loop(_, _, _, _)
mandelbrot_loop(z, n, cc, mi) ==
    IF AbsLe2(z) /\ n < mi
    THEN mandelbrot_loop(CAdd(CMul(z, z), cc), n + 1, cc, mi)
    ELSE n

mandelbrot(cc, mi) == mandelbrot_loop(CZero, 0, cc, mi)

\* mutant: the kernel updates z before it tests the radius
RECURSIVE mandelbrot_cuda_late_loop(_, _, _, _)
mandelbrot_cuda_late_loop(z, n, cc, mi) ==
    IF n >= mi THEN mi
    ELSE LET z1 == CAdd(CMul(z, z), cc)
         IN  IF AbsGt2(z1) THEN n
             ELSE mandelbrot_cuda_late_loop(z1, n + 1, cc, mi)

mandelbrot_cuda_late(cc, mi) == mandelbrot_cuda_late_loop(CZero, 0, cc, mi)

\* for n in range(max_iter): if abs(z) > 2: return n; z = z*z + c
\* return max_iter
RECURSIVE mandelbrot_cuda_loop(_, _, _, _)
mandelbrot_cuda_loop(z, n, cc, mi) ==
    IF n >= mi THEN mi
    ELSE IF AbsGt2(z) THEN n
    ELSE mandelbrot_cuda_loop(CAdd(CMul(z, z), cc), n + 1, cc, mi)

mandelbrot_cuda(cc, mi) == mandelbrot_cuda_loop(CZero, 0, cc, mi)

---------------------------------------------------------------------------
\* Arrays: a 2-D array is [rows, cols, cell], cell indexed by <<i, j>> with
\* i along axis 0 and j along axis 1.

\* np.linspace(a, b, num): num points from a to b, both ends included
linspace(a, b, num) ==
    [i \in 0..(num - 1) |->
        IF num = 1 THEN a
        ELSE RAdd(a, RDivInt(RMulInt(RSub(b, a), i), num - 1))]

\* np.concatenate((a, b), axis)
concatenate(a, b, axis) ==
    IF axis = 0
    THEN [rows |-> a.rows + b.rows, cols |-> a.cols,
          cell |-> [p \in (0..(a.rows + b.rows - 1)) \X (0..(a.cols - 1)) |->
                      IF p[1] < a.rows THEN a.cell[p]
                      ELSE b.cell[<<p[1] - a.rows, p[2]>>]]]
    ELSE [rows |-> a.rows, cols |-> a.cols + b.cols,
          cell |-> [p \in (0..(a.rows - 1)) \X (0..(a.cols + b.cols - 1)) |->
                      IF p[2] < a.cols THEN a.cell[p]
                      ELSE b.cell[<<p[1], p[2] - a.cols>>]]]

\* compute_mandelbrot_region: C lists the points x-major (index
\* k = i*height + j is (x[i], y[j])), count[k] is the escape count of C[k],
\* and the flat count is reshaped to (height, width).
compute_mandelbrot_region(args) ==
    LET x == linspace(args.xmin, args.xmax, args.width)
        y == linspace(args.ymin, args.ymax, args.height)
        C(k) == Cplx(x[k \div args.height], y[k % args.height])
        count(k) == mandelbrot(C(k), args.max_iter)
    IN  [rows |-> args.height, cols |-> args.width,
         cell |-> [p \in (0..(args.height - 1)) \X (0..(args.width - 1)) |->
                     count(p[1] * args.width + p[2])]]

Region(name, x0, x1, y0, y1, w, h, mi) ==
    [name |-> name, xmin |-> x0, xmax |-> x1, ymin |-> y0, ymax |-> y1,
     width |-> w, height |-> h, max_iter |-> mi]

\* the regions list of plot_mandelbrot as first written
quadrants(x0, x1, y0, y1, w, h, mi) ==
    LET x_mid == RDivInt(RAdd(x0, x1), 2)
        y_mid == RDivInt(RAdd(y0, y1), 2)
    IN  << Region("Bottom-left",  x0, x_mid, y0, y_mid, w \div 2, h \div 2, mi),
           Region("Bottom-right", x_mid, x1, y0, y_mid, w \div 2, h \div 2, mi),
           Region("Top-left",     x0, x_mid, y_mid, y1, w \div 2, h \div 2, mi),
           Region("Top-right",    x_mid, x1, y_mid, y1, w \div 2, h \div 2, mi) >>

\* mutant: the list is dispatched as first written
keep_regions(regs) == regs

\* regions[2], regions[1] = regions[1], regions[2]   (0-based indices)
swap_regions(regs) == [regs EXCEPT ![2] = regs[3], ![3] = regs[2]]

\* top, bottom and final_result of plot_mandelbrot, from the four values
\* unpacked from results
assemble(bl, br, tl, tr) ==
    LET top == concatenate(tl, tr, 1)
        bottom == concatenate(bl, br, 1)
    IN  concatenate(bottom, top, 0)

\* mutant: a finished task's grid goes to the first free slot
store_in_completion_order(fut, i, grid) ==
    LET k == CHOOSE j \in 1..Len(fut) :
                 fut[j] = NoGrid /\ \A l \in 1..(j - 1) : fut[l] # NoGrid
    IN  [fut EXCEPT ![k] = grid]

\* executor.map: the grid of the i-th submitted task is the i-th result
store_result(fut, i, grid) == [fut EXCEPT ![i] = grid]

---------------------------------------------------------------------------
\* The GPU path.

\* threadsperblock = (16, 16) in the source
threadsperblock == <<BlockEdge, BlockEdge>>

\* blockspergrid_x, blockspergrid_y
blockspergrid(w, h) ==
    <<(w + (threadsperblock[1] - 1)) \div threadsperblock[1],
      (h + (threadsperblock[2] - 1)) \div threadsperblock[2]>>

\* the threads of the launch mandelbrot_kernel[blockspergrid, threadsperblock]
Threads(w, h) ==
    [bx : 0..(blockspergrid(w, h)[1] - 1), by : 0..(blockspergrid(w, h)[2] - 1),
     tx : 0..(threadsperblock[1] - 1), ty : 0..(threadsperblock[2] - 1)]

\* column, row = cuda.grid(2)
Column(t) == t.bx * threadsperblock[1] + t.tx
Row(t) == t.by * threadsperblock[2] + t.ty

\* mutant: the guard admits the first column and row past the image
guard_inclusive(column, row, w, h) == column <= w /\ row <= h

\* if column < width and row < height
guard(column, row, w, h) == column < w /\ row < h

\* color of the kernel: the escape count of
\* (min_x + column*(max_x-min_x)/width, min_y + row*(max_y-min_y)/height)
color(x0, x1, y0, y1, w, h, mi, column, row) ==
    LET x == RAdd(x0, RDivInt(RMulInt(RSub(x1, x0), column), w))
        y == RAdd(y0, RDivInt(RMulInt(RSub(y1, y0), row), h))
    IN  mandelbrot_cuda(Cplx(x, y), mi)

\* np.zeros((height, width))
zeros(h, w) ==
    [rows |-> h, cols |-> w,
     cell |-> [p \in (0..(h - 1)) \X (0..(w - 1)) |-> 0]]

\* the image compute_mandelbrot_gpu returns once every launched thread has
\* run: a cell holds the color written by a thread that passes the guard
\* for it, and stays 0 when there is none
compute_mandelbrot_gpu(x0, x1, y0, y1, w, h, mi) ==
    [rows |-> h, cols |-> w,
     cell |-> [p \in (0..(h - 1)) \X (0..(w - 1)) |->
                 IF \E t \in Threads(w, h) :
                        /\ Row(t) = p[1] /\ Column(t) = p[2]
                        /\ guard(Column(t), Row(t), w, h)
                 THEN color(x0, x1, y0, y1, w, h, mi, p[2], p[1])
                 ELSE 0]]

---------------------------------------------------------------------------
\* Values of the variables an operation does not use.

EmptyGrid == [rows |-> 0, cols |-> 0, cell |-> [p \in {} |-> 0]]

IdleEval == c = CZero /\ n_cpu = None /\ n_gpu = None
IdleView ==
    /\ press = NoPress
    /\ rect = [x |-> Rat(0), y |-> Rat(0), w |-> Rat(0), h |-> Rat(0)]
    /\ dispatches = 0
IdlePool ==
    /\ max_workers = 1
    /\ regions = <<>>
    /\ status = <<>>
    /\ futures = <<>>
    /\ completed = <<>>
    /\ results = <<>>
IdlePlot ==
    /\ bottom_left = NoGrid /\ bottom_right = NoGrid
    /\ top_left = NoGrid /\ top_right = NoGrid
    /\ final_result = NoGrid
IdleGpu ==
    /\ min_x = Rat(0) /\ max_x = Rat(0) /\ min_y = Rat(0) /\ max_y = Rat(0)
    /\ image = EmptyGrid /\ ran = {} /\ ran_out = 0 /\ writes = <<>>

---------------------------------------------------------------------------
\* Specification of the escape evaluators: a sample c and max_iter are
\* drawn, then both evaluators are applied to them.

Samples ==
    {Cplx(Rat(re), Rat(im)) : re \in -MaxSample..MaxSample,
                              im \in -MaxSample..MaxSample}

InitEval ==
    /\ pc = "sample"
    /\ c \in Samples
    /\ max_iter \in 1..MaxEvalIter
    /\ n_cpu = None /\ n_gpu = None
    /\ xmin = Rat(0) /\ xmax = Rat(0) /\ ymin = Rat(0) /\ ymax = Rat(0)
    /\ width = 0 /\ height = 0
    /\ IdleView /\ IdlePool /\ IdlePlot /\ IdleGpu

Evaluate ==
    /\ pc = "sample"
    /\ n_cpu' = mandelbrot(c, max_iter)
    /\ n_gpu' = mandelbrot_cuda(c, max_iter)
    /\ pc' = "evaluated"
    /\ UNCHANGED <<c, max_iter, width, height>>
    /\ UNCHANGED <<viewVars, poolVars, plotVars, gpuVars>>

NextEval == Evaluate

SpecEval == InitEval /\ [][NextEval]_vars

\* The m-th iterate of z <- z*z + c from z = 0.
RECURSIVE Iterate(_, _)
Iterate(cc, m) ==
    IF m = 0 THEN CZero
    ELSE LET z == Iterate(cc, m - 1) IN CAdd(CMul(z, z), cc)

\* C1: mandelbrot(c, max_iter) is in [0, max_iter]; no iterate before the
\* returned index lies outside radius 2; and a result below max_iter is the
\* index of an iterate outside radius 2.  So the result is the smallest n
\* with |z_n| > 2, or max_iter when z_0 .. z_{max_iter-1} all stay inside.
C1_SmallestEscape ==
    pc = "evaluated" =>
        /\ n_cpu \in 0..max_iter
        /\ \A m \in 0..(n_cpu - 1) : ~AbsGt2(Iterate(c, m))
        /\ n_cpu < max_iter => AbsGt2(Iterate(c, n_cpu))

\* an orbit that leaves radius 2 strictly before the bound, after staying
\* on the circle |z| = 2 for a step (c = -2 - i: z_1 escapes; c = 2: z_2)
C1_Witness ==
    /\ pc = "evaluated"
    /\ 1 < n_cpu /\ n_cpu < max_iter
    /\ AbsGt2(Iterate(c, n_cpu))

\* C2 as stated: a sample outside radius 2 yields 0 on both evaluators.
C2_OutsideGivesZero ==
    (pc = "evaluated" /\ AbsGt2(c)) => (n_cpu = 0 /\ n_gpu = 0)

\* C2 amended: for |c| > 2 and max_iter >= 1 both evaluators return 1:
\* z_0 = 0 is inside the radius, z_1 = c is the first iterate outside it.
C2_OutsideGivesOne ==
    (pc = "evaluated" /\ AbsGt2(c)) => (n_cpu = 1 /\ n_gpu = 1)

C2_Witness ==
    /\ pc = "evaluated"
    /\ AbsGt2(c)
    /\ max_iter > 1
    /\ n_cpu = 1 /\ n_gpu = 1

\* C3: mandelbrot and mandelbrot_cuda return the same count for every
\* sample and every max_iter >= 1.
C3_EvaluatorsAgree ==
    pc = "evaluated" => n_cpu = n_gpu

\* the first iterate outside radius 2 is exactly the max_iter-th
C3_Witness ==
    /\ pc = "evaluated"
    /\ n_cpu = max_iter /\ n_gpu = max_iter
    /\ max_iter > 1
    /\ AbsGt2(Iterate(c, max_iter))
    /\ \A m \in 0..(max_iter - 1) : ~AbsGt2(Iterate(c, m))

---------------------------------------------------------------------------
\* Specification of one plot_mandelbrot call over a pool of max_workers
\* processes.  The source fixes processesNumber = 1; the pool size is drawn
\* from 1..MaxWorkers so that the region tasks can overlap.

\* the constructor's viewport, the unit square, a viewport that is not
\* square, and the viewport a press and a release at one x leave behind
Viewports ==
    {<<Rat(-2), Rat(2), Rat(-2), Rat(2)>>,
     <<Rat(0), Rat(1), Rat(0), Rat(1)>>,
     <<Rat(-2), Rat(1), Rat(0), Rat(2)>>,
     <<Rat(1), Rat(1), Rat(0), Rat(1)>>}

Tasks == 1..4

InitPlot ==
    /\ pc = "plot"
    /\ \E v \in Viewports :
           xmin = v[1] /\ xmax = v[2] /\ ymin = v[3] /\ ymax = v[4]
    /\ width \in 1..MaxDim /\ height \in 1..MaxDim
    /\ max_iter \in 1..MaxIter
    /\ max_workers \in 1..MaxWorkers
    /\ regions = <<>> /\ status = <<>> /\ futures = <<>> /\ results = <<>>
    /\ completed = <<>>
    /\ press = NoPress
    /\ rect = [x |-> Rat(0), y |-> Rat(0), w |-> Rat(0), h |-> Rat(0)]
    /\ dispatches = 0
    /\ IdleEval /\ IdlePlot /\ IdleGpu

\* lines 82-101: build the regions, swap two of them, hand all four to
\* executor.map
Submit ==
    /\ pc = "plot"
    /\ regions' = swap_regions(
                      quadrants(xmin, xmax, ymin, ymax, width, height, max_iter))
    /\ status' = [i \in Tasks |-> "queued"]
    /\ futures' = [i \in Tasks |-> NoGrid]
    /\ completed' = <<>>
    /\ pc' = "mapping"
    /\ UNCHANGED <<max_iter, width, height, max_workers, results>>
    /\ UNCHANGED <<evalVars, viewVars, plotVars, gpuVars>>

\* a free worker takes the oldest queued task (completed records the order
\* in which the tasks finish)
Start(i) ==
    /\ pc = "mapping"
    /\ status[i] = "queued"
    /\ \A j \in 1..(i - 1) : status[j] # "queued"
    /\ Cardinality({j \in Tasks : status[j] = "running"}) < max_workers
    /\ status' = [status EXCEPT ![i] = "running"]
    /\ UNCHANGED <<pc, max_iter, width, height, max_workers, regions,
                   futures, completed, results>>
    /\ UNCHANGED <<evalVars, viewVars, plotVars, gpuVars>>

\* a worker returns compute_mandelbrot_region(regions[i])
Complete(i) ==
    /\ pc = "mapping"
    /\ status[i] = "running"
    /\ status' = [status EXCEPT ![i] = "done"]
    /\ futures' = store_result(futures, i, compute_mandelbrot_region(regions[i]))
    /\ completed' = Append(completed, i)
    /\ UNCHANGED <<pc, max_iter, width, height, max_workers, regions, results>>
    /\ UNCHANGED <<evalVars, viewVars, plotVars, gpuVars>>

\* list(executor.map(...)) returns once every task has finished
all_done(st) == \A i \in Tasks : st[i] = "done"

\* lines 101-107: collect the results, unpack them, assemble the image
Assemble ==
    /\ pc = "mapping"
    /\ all_done(status)
    /\ results' = futures
    /\ bottom_left' = futures[1]
    /\ bottom_right' = futures[2]
    /\ top_left' = futures[3]
    /\ top_right' = futures[4]
    /\ final_result' = IF \E i \in Tasks : futures[i] = NoGrid THEN NoGrid
                       ELSE assemble(futures[1], futures[2], futures[3], futures[4])
    /\ pc' = "done"
    /\ UNCHANGED <<max_iter, width, height, max_workers, regions, status,
                   futures, completed>>
    /\ UNCHANGED <<evalVars, viewVars, gpuVars>>

NextPlot ==
    \/ Submit
    \/ \E i \in Tasks : Start(i)
    \/ \E i \in Tasks : Complete(i)
    \/ Assemble

SpecPlot == InitPlot /\ [][NextPlot]_vars

\* the grid computed for the region called name
grid_of(name) ==
    compute_mandelbrot_region(
        regions[CHOOSE i \in Tasks : regions[i].name = name])

\* C4 as stated: after the swap and the unpacking, each of bottom_left,
\* bottom_right, top_left, top_right holds the grid of the region of that
\* name.
C4_VariablesHoldNamedRegions ==
    pc = "done" =>
        /\ bottom_left = grid_of("Bottom-left")
        /\ bottom_right = grid_of("Bottom-right")
        /\ top_left = grid_of("Top-left")
        /\ top_right = grid_of("Top-right")

\* C4 amended: bottom_left and top_right hold the grids of the regions of
\* those names, bottom_right holds the grid of Top-left and top_left the
\* grid of Bottom-right; so Bottom-left lies beside Top-left along axis 1
\* (bottom), Bottom-right beside Top-right along axis 1 (top), and bottom
\* precedes top along axis 0 of final_result.
C4_SwappedPlacement ==
    pc = "done" =>
        /\ bottom_left = grid_of("Bottom-left")
        /\ bottom_right = grid_of("Top-left")
        /\ top_left = grid_of("Bottom-right")
        /\ top_right = grid_of("Top-right")
        /\ final_result =
               concatenate(
                   concatenate(grid_of("Bottom-left"), grid_of("Top-left"), 1),
                   concatenate(grid_of("Bottom-right"), grid_of("Top-right"), 1),
                   0)

\* the two swapped quadrants have different grids, so the placement shows
C4_Witness ==
    /\ pc = "done"
    /\ width = 4 /\ height = 4
    /\ bottom_right = grid_of("Top-left")
    /\ top_left = grid_of("Bottom-right")
    /\ grid_of("Top-left") # grid_of("Bottom-right")

\* C5 as stated: for a viewport with xmin < xmax, ymin < ymax and even
\* width and height, final_result equals the grid of compute_mandelbrot_gpu
\* cell for cell.
C5_PathsAgree ==
    (/\ pc = "done"
     /\ RLess(xmin, xmax) /\ RLess(ymin, ymax)
     /\ width % 2 = 0 /\ height % 2 = 0)
    => final_result =
           compute_mandelbrot_gpu(xmin, xmax, ymin, ymax, width, height, max_iter)

\* C6 as stated: the assembled grid has height rows and width columns for
\* every positive width and height.
C6_ShapeKept ==
    pc = "done" => (final_result.rows = height /\ final_result.cols = width)

\* plot_mandelbrot run by one worker, one region after the other
plot_sequential(x0, x1, y0, y1, w, h, mi) ==
    LET regs == swap_regions(quadrants(x0, x1, y0, y1, w, h, mi))
        g(i) == compute_mandelbrot_region(regs[i])
    IN  assemble(g(1), g(2), g(3), g(4))

\* C9: whatever the pool size and the order in which the tasks start and
\* finish, the results are taken only when all four tasks are done,
\* results[i] is the grid of regions[i], and final_result is the grid one
\* sequential worker produces.
C9_SubmissionOrder ==
    /\ pc = "mapping" =>
           \A i \in Tasks :
               futures[i] # NoGrid =>
                   futures[i] = compute_mandelbrot_region(regions[i])
    /\ pc = "done" =>
           /\ \A i \in Tasks : status[i] = "done"
           /\ \A i \in Tasks : results[i] = compute_mandelbrot_region(regions[i])
           /\ final_result =
                  plot_sequential(xmin, xmax, ymin, ymax, width, height, max_iter)

\* two workers, the tasks finished out of submission order, and the four
\* grids are not all alike
C9_Witness ==
    /\ pc = "done"
    /\ max_workers > 1
    /\ completed # <<1, 2, 3, 4>>
    /\ results[completed[1]] # results[1]
    /\ final_result =
           plot_sequential(xmin, xmax, ymin, ymax, width, height, max_iter)

---------------------------------------------------------------------------
\* Specification of the viewer: ZoomableMandelbrot after construction,
\* handling press, motion and release events.  A handler runs to its end
\* before the next event is handled, and plot_mandelbrot runs inside
\* on_release with the source's single worker.

EvCoords == {Rat(i) : i \in 0..MaxEvCoord}

\* an event outside the axes carries no data coordinates
NoCoord == <<>>

Events ==
    {[inaxes |-> FALSE, xdata |-> NoCoord, ydata |-> NoCoord]} \cup
    {[inaxes |-> TRUE, xdata |-> x, ydata |-> y] : x \in EvCoords, y \in EvCoords}

RMin(p, q) == IF RLeq(p, q) THEN p ELSE q
RMax(p, q) == IF RLeq(p, q) THEN q ELSE p

\* plot_mandelbrot() on the viewport (x0, x1, y0, y1), run by the source's
\* single worker: the new values of its locals
plot_mandelbrot(x0, x1, y0, y1) ==
    /\ regions' = swap_regions(quadrants(x0, x1, y0, y1, width, height, max_iter))
    /\ results' = [i \in Tasks |-> compute_mandelbrot_region(regions'[i])]
    /\ futures' = results'
    /\ bottom_left' = results'[1]
    /\ bottom_right' = results'[2]
    /\ top_left' = results'[3]
    /\ top_right' = results'[4]
    /\ final_result' = assemble(bottom_left', bottom_right', top_left', top_right')

\* __init__ with the default width and height, its plot_mandelbrot() call
\* included
InitView ==
    /\ pc = "idle"
    /\ max_iter = MaxIter
    /\ width = ViewDim /\ height = ViewDim
    /\ press = NoPress
    /\ xmin = Rat(-2) /\ xmax = Rat(2)
    /\ ymin = Rat(-2) /\ ymax = Rat(2)
    /\ rect = [x |-> Rat(0), y |-> Rat(0), w |-> Rat(0), h |-> Rat(0)]
    /\ dispatches = 1
    /\ max_workers = 1
    /\ regions = swap_regions(quadrants(xmin, xmax, ymin, ymax,
                                        width, height, max_iter))
    /\ results = [i \in Tasks |-> compute_mandelbrot_region(regions[i])]
    /\ futures = results
    /\ status = [i \in Tasks |-> "done"]
    /\ completed = <<1, 2, 3, 4>>
    /\ bottom_left = results[1]
    /\ bottom_right = results[2]
    /\ top_left = results[3]
    /\ top_right = results[4]
    /\ final_result = assemble(bottom_left, bottom_right, top_left, top_right)
    /\ IdleEval /\ IdleGpu

on_press(e) ==
    /\ pc = "idle"
    /\ IF ~e.inaxes
       THEN UNCHANGED <<press, rect>>
       ELSE /\ press' = <<e.xdata, e.ydata>>
            /\ rect' = [x |-> e.xdata, y |-> e.ydata, w |-> Rat(0), h |-> Rat(0)]
    /\ UNCHANGED <<xmin, xmax, ymin, ymax, dispatches>>
    /\ UNCHANGED <<pc, max_iter, width, height>>
    /\ UNCHANGED <<evalVars, poolVars, plotVars, gpuVars>>

\* mutant: the drag itself moves the viewport
on_motion_zooming(e) ==
    /\ pc = "idle"
    /\ IF press = NoPress \/ ~e.inaxes
       THEN UNCHANGED <<rect, xmin, xmax, ymin, ymax>>
       ELSE /\ rect' = [rect EXCEPT !.w = RSub(e.xdata, press[1]),
                                    !.h = RSub(e.ydata, press[2])]
            /\ xmin' = RMin(press[1], e.xdata) /\ xmax' = RMax(press[1], e.xdata)
            /\ ymin' = RMin(press[2], e.ydata) /\ ymax' = RMax(press[2], e.ydata)
    /\ UNCHANGED <<press, dispatches>>
    /\ UNCHANGED <<pc, max_iter, width, height>>
    /\ UNCHANGED <<evalVars, poolVars, plotVars, gpuVars>>

on_motion(e) ==
    /\ pc = "idle"
    /\ IF press = NoPress \/ ~e.inaxes
       THEN UNCHANGED rect
       ELSE rect' = [rect EXCEPT !.w = RSub(e.xdata, press[1]),
                                 !.h = RSub(e.ydata, press[2])]
    /\ UNCHANGED <<xmin, xmax, ymin, ymax, press, dispatches>>
    /\ UNCHANGED <<pc, max_iter, width, height>>
    /\ UNCHANGED <<evalVars, poolVars, plotVars, gpuVars>>

on_release(e) ==
    /\ pc = "idle"
    /\ IF press = NoPress \/ ~e.inaxes
       THEN UNCHANGED <<viewVars, poolVars, plotVars>>
       ELSE /\ dispatches < MaxDispatches
            /\ xmin' = RMin(press[1], e.xdata) /\ xmax' = RMax(press[1], e.xdata)
            /\ ymin' = RMin(press[2], e.ydata) /\ ymax' = RMax(press[2], e.ydata)
            /\ press' = NoPress
            /\ rect' = [rect EXCEPT !.w = Rat(0), !.h = Rat(0)]
            /\ dispatches' = dispatches + 1
            /\ plot_mandelbrot(xmin', xmax', ymin', ymax')
            /\ UNCHANGED <<max_workers, status, completed>>
    /\ UNCHANGED <<pc, max_iter, width, height>>
    /\ UNCHANGED <<evalVars, gpuVars>>

NextView ==
    \/ \E e \in Events : on_press(e)
    \/ \E e \in Events : on_motion(e)
    \/ \E e \in Events : on_release(e)

SpecView == InitView /\ [][NextView]_vars

\* C7 as stated: no region is submitted while xmin >= xmax or ymin >= ymax.
\* (regions are the regions of the latest plot_mandelbrot call, which ran
\* on the viewport the state holds.)
C7_InvalidViewportRejected ==
    (regions # <<>> /\
     regions = swap_regions(quadrants(xmin, xmax, ymin, ymax, width, height, max_iter)))
    => (RLess(xmin, xmax) /\ RLess(ymin, ymax))

\* C10: plot_mandelbrot has run once at construction; afterwards a step
\* that is a press or a motion changes neither the viewport nor what was
\* dispatched; press becomes set only by a press inside the axes; the
\* dispatch count changes only by one, only by a release inside the axes
\* while a press is pending, on the viewport spanned by that press and that
\* release; and every such release dispatches.
C10_CommittedViewportOnly ==
    /\ dispatches = 1
    /\ [][/\ \/ UNCHANGED <<xmin, xmax, ymin, ymax, dispatches, regions,
                            results, final_result>>
             \/ ~(\E e \in Events : on_press(e) \/ on_motion(e))
          /\ (press = NoPress /\ press' # NoPress) =>
                \E e \in Events : e.inaxes /\ on_press(e)
          /\ dispatches' # dispatches =>
                /\ dispatches' = dispatches + 1
                /\ press # NoPress /\ press' = NoPress
                /\ \E e \in Events :
                       /\ e.inaxes
                       /\ xmin' = RMin(press[1], e.xdata)
                       /\ xmax' = RMax(press[1], e.xdata)
                       /\ ymin' = RMin(press[2], e.ydata)
                       /\ ymax' = RMax(press[2], e.ydata)
                       /\ on_release(e)
                /\ regions' = swap_regions(quadrants(xmin', xmax', ymin', ymax',
                                                     width, height, max_iter))
          /\ dispatches' = dispatches =>
                UNCHANGED <<xmin, xmax, ymin, ymax, regions, results, final_result>>
          /\ \/ dispatches' = dispatches + 1
             \/ \A e \in Events :
                    ~(e.inaxes /\ press # NoPress /\ on_release(e))
         ]_vars

\* a drag from (1, 0) to (0, 1) has been committed by a release
C10_Witness ==
    /\ dispatches = 2
    /\ press = NoPress
    /\ rect.x = Rat(1) /\ rect.y = Rat(0)
    /\ xmin = Rat(0) /\ xmax = Rat(1) /\ ymin = Rat(0) /\ ymax = Rat(1)
    /\ regions = swap_regions(quadrants(xmin, xmax, ymin, ymax, width, height, max_iter))

---------------------------------------------------------------------------
\* Specification of one compute_mandelbrot_gpu call: the launch, the
\* threads in any order, the synchronize barrier.  Every launched thread
\* runs once.  ran holds the threads that own a pixel and have run; of the
\* threads outside the image only their number is kept (ran_out), which
\* admits every schedule of the launch.

\* plot_mandelbrot_gpu: compute_mandelbrot_gpu(-2.0, 1.0, -1.5, 1.5, ...)
GpuViewports == {<<Rat(-2), Rat(1), <<-3, 2>>, <<3, 2>>>>}

\* the threads whose (column, row) is a pixel, and the number of the others
InImage(t) == Column(t) < width /\ Row(t) < height
ImageThreads == {t \in Threads(width, height) : InImage(t)}
NumThreads ==
    blockspergrid(width, height)[1] * blockspergrid(width, height)[2]
        * threadsperblock[1] * threadsperblock[2]
NumOutside == NumThreads - Cardinality(ImageThreads)

InitGpu ==
    /\ pc = "call"
    /\ \E v \in GpuViewports :
           min_x = v[1] /\ max_x = v[2] /\ min_y = v[3] /\ max_y = v[4]
    /\ width \in 1..MaxGpuWidth /\ height \in 1..MaxGpuHeight
    /\ max_iter = GpuIter
    /\ image = EmptyGrid /\ ran = {} /\ ran_out = 0 /\ writes = <<>>
    /\ xmin = Rat(0) /\ xmax = Rat(0) /\ ymin = Rat(0) /\ ymax = Rat(0)
    /\ IdleView /\ IdlePool /\ IdlePlot /\ IdleEval

\* image = np.zeros(...); mandelbrot_kernel[blockspergrid, threadsperblock](...)
Launch ==
    /\ pc = "call"
    /\ image' = zeros(height, width)
    /\ writes' = <<>>
    /\ ran' = {} /\ ran_out' = 0
    /\ pc' = "launched"
    /\ UNCHANGED <<min_x, max_x, min_y, max_y, max_iter, width, height>>
    /\ UNCHANGED <<evalVars, viewVars, poolVars, plotVars>>

\* one thread runs the kernel; writes counts the stores per cell
mandelbrot_kernel(t) ==
    /\ pc = "launched"
    /\ IF InImage(t)
       THEN t \notin ran /\ ran' = ran \cup {t} /\ UNCHANGED ran_out
       ELSE /\ ran_out < NumOutside
            /\ ran_out' = ran_out + 1 /\ UNCHANGED ran
    /\ LET column == Column(t)
           row == Row(t)
           p == <<row, column>>
       IN  IF guard(column, row, width, height)
           THEN /\ image' =
                      IF p \in DOMAIN image.cell
                      THEN [image EXCEPT !.cell[p] =
                               color(min_x, max_x, min_y, max_y,
                                     width, height, max_iter, column, row)]
                      ELSE image
                /\ writes' = IF p \in DOMAIN writes
                             THEN [writes EXCEPT ![p] = @ + 1]
                             ELSE writes @@ (p :> 1)
           ELSE UNCHANGED <<image, writes>>
    /\ UNCHANGED <<pc, min_x, max_x, min_y, max_y, max_iter, width, height>>
    /\ UNCHANGED <<evalVars, viewVars, poolVars, plotVars>>

\* cuda.synchronize(); return image
Synchronize ==
    /\ pc = "launched"
    /\ ran_out = NumOutside
    /\ ran = ImageThreads
    /\ pc' = "returned"
    /\ UNCHANGED <<min_x, max_x, min_y, max_y, max_iter, width, height>>
    /\ UNCHANGED <<evalVars, viewVars, poolVars, plotVars, gpuVars>>

NextGpu ==
    \/ Launch
    \/ \E t \in Threads(width, height) : mandelbrot_kernel(t)
    \/ Synchronize

SpecGpu == InitGpu /\ [][NextGpu]_vars

\* C8: the launch has ceil(width/edge) x ceil(height/edge) blocks; every
\* pixel has exactly one thread; a cell is stored to at most once, only
\* inside the image and only by the thread that owns it, so threads outside
\* the image store nothing; and the returned image has every cell stored
\* once and equals the image fixed by the arguments alone, whatever the
\* order in which the threads ran.
C8_OneWriterPerPixel ==
    pc \in {"launched", "returned"} =>
        LET T == Threads(width, height)
            b == blockspergrid(width, height)
        IN  /\ (b[1] - 1) * threadsperblock[1] < width
            /\ width <= b[1] * threadsperblock[1]
            /\ (b[2] - 1) * threadsperblock[2] < height
            /\ height <= b[2] * threadsperblock[2]
            /\ \A p \in DOMAIN image.cell :
                   Cardinality({t \in T : Row(t) = p[1] /\ Column(t) = p[2]}) = 1
            /\ \A p \in DOMAIN writes :
                   /\ writes[p] = 1
                   /\ p \in DOMAIN image.cell
                   /\ \E t \in ran : Row(t) = p[1] /\ Column(t) = p[2]
            /\ Cardinality(DOMAIN writes) = Cardinality(ran)
            /\ pc = "returned" =>
                   /\ DOMAIN writes = DOMAIN image.cell
                   /\ image = compute_mandelbrot_gpu(min_x, max_x, min_y, max_y,
                                                     width, height, max_iter)

\* a returned image of two blocks in x, with threads outside the image and
\* cells of different colors
C8_Witness ==
    /\ pc = "returned"
    /\ width = 3 /\ height = 2
    /\ blockspergrid(width, height)[1] = 2
    /\ ran_out > 0
    /\ ran_out + Cardinality(ran) = Cardinality(Threads(width, height))
    /\ \E p, q \in DOMAIN image.cell : image.cell[p] # image.cell[q]
    /\ \A p \in DOMAIN image.cell : writes[p] = 1

=============================================================================
